---- MODULE Spec2Model ----
(***************************************************************************)
(* The edit session of the NanoSnap photo editor: the App component that   *)
(* mounts an Editor on an uploaded image, the Editor's history / cursor /  *)
(* current image, the asynchronous remote edit (handleGenerate awaiting    *)
(* editImageWithGemini), Keep & Continue, undo / redo and the crop tool.   *)
(*                                                                         *)
(* The React state cells of Editor.tsx are variables, but for the three    *)
(* text fields customPrompt, targetObject and editAction: the user can     *)
(* retype them before any click, so their content is the argument of the   *)
(* submit action (handleUseAsSource emptying targetObject and editAction   *)
(* changes nothing a later submit can tell).  An event handler is one      *)
(* action: it reads the state of the render it was created in and its      *)
(* setState calls are applied together.                                    *)
(* The code after an `await` is a separate action that runs when the       *)
(* awaited promise settles; what it read before the await travels in the   *)
(* entry of `calls`.                                                       *)
(***************************************************************************)
EXTENDS Integers, Sequences, FiniteSets, Bags, TLC

VARIABLES
    activeImage,     \* App.tsx:8      the uploaded image, NoImage before upload
    history,         \* Editor.tsx:36  sequence of ImageFile
    historyIndex,    \* Editor.tsx:37  0-based cursor into history
    currentImage,    \* Editor.tsx:38
    generatedImage,  \* Editor.tsx:40  pending result, NoGenerated for null
    status,          \* Editor.tsx:41
    errorMessage,    \* Editor.tsx:42  NullMessage for null
    activeTab,       \* Editor.tsx:45
    cropStart,       \* Editor.tsx:54  NoPoint for null
    cropEnd,         \* Editor.tsx:55
    isDraggingCrop,  \* Editor.tsx:56
    calls,           \* bag of the promises handleUpscale / handleGenerate await
    reads,           \* bag of the files whose fileToBase64 processFile awaits
    alertMessage     \* the window.alert on screen, NoAlert for none

vars == <<activeImage, history, historyIndex, currentImage, generatedImage,
          status, errorMessage, activeTab, cropStart, cropEnd,
          isDraggingCrop, calls, reads, alertMessage>>

\* What lives outside the Editor: App's state, the reads UploadZone
\* started, the alert box.
appVars == <<activeImage, reads, alertMessage>>

\* The React state of one Editor instance.
editorVars == <<history, historyIndex, currentImage, generatedImage, status,
                errorMessage, activeTab, cropStart, cropEnd, isDraggingCrop>>

\* The session state the controller owns.
sessionVars == <<history, historyIndex, currentImage, generatedImage, status,
                 errorMessage>>

-----------------------------------------------------------------------------
(* Bounds *)

MaxHistory == 3     \* commits are offered while the history is shorter
MaxCalls == 2       \* promises that may be awaited at the same time
MaxPayload == 1     \* distinct image payloads the service may answer with
MaxReads == 2
MaxParts == 2       \* parts in one answer of the service

-----------------------------------------------------------------------------
(* Values *)

\* A content type "major/minor" is <<major, minor>>, the empty string <<>>.
NoMime == <<>>
ImagePng == <<"image", "png">>
ImageGif == <<"image", "gif">>
TextPlain == <<"text", "plain">>
BlobScheme == <<"blob">>

\* A data URL "data:<mime>;base64,<data>".  The data of an uploaded file is
\* <<FileOp(id)>>, of an image the service answered with <<GenOp(k)>> (the
\* service is opaque: payload k stands for whatever pixels it chose), and
\* of a crop the data of its source followed by the rectangle drawn.
NoUrl == [mime |-> NoMime, data |-> <<>>]

FileOp(id) == [op |-> "file", x |-> id, y |-> 0, w |-> 0, h |-> 0]
GenOp(k) == [op |-> "gen", x |-> k, y |-> 0, w |-> 0, h |-> 0]
CropOp(x, y, w, h) == [op |-> "crop", x |-> x, y |-> y, w |-> w, h |-> h]

NoImage == [file |-> 0, previewUrl |-> NoUrl, base64 |-> NoUrl, mimeType |-> NoMime]
NoGenerated == [imageUrl |-> NoUrl, prompt |-> <<>>]
NullMessage == "null"
NoAlert == "none"
UploadAlert == "Please upload an image file (PNG, JPG, WebP)."
FailedAlert == "Failed to process image."
NoPoint == [x |-> -1, y |-> -1]

IDLE == "IDLE"
UPLOADING == "UPLOADING"
READY == "READY"
PROCESSING == "PROCESSING"
COMPLETE == "COMPLETE"
ERROR == "ERROR"
EditorStatus == {IDLE, UPLOADING, READY, PROCESSING, COMPLETE, ERROR}

EditorTab == {"refine", "lighting", "background", "crop", "upscale"}

Mounted == activeImage # NoImage

\* Files the user may pick: [id, type].
Files ==
    { [id |-> 1, type |-> ImagePng],
      [id |-> 3, type |-> TextPlain] }

\* Texts are sequences of characters, so that trimming is computed.
Texts == { <<>>, <<" ">>, <<"p">> }
TargetObjects == { <<>>, <<"o">> }
EditActions == { <<>>, <<"a">> }
PresetPrompts == { <<"p">> }
UpscalePrompt == <<"H">>
ImageSizes == { "2K" }
ProModel == "gemini-3-pro-image-preview"
FlashModel == "gemini-2.5-flash-image"
NoConfig == [model |-> "", imageSize |-> ""]

\* Geometry of the displayed image and pointer positions on it.
DisplayWidth == 400
DisplayHeight == 300
Points == { [x |-> 0, y |-> 0] }
PointerOffsets == { [x |-> 5, y |-> 5], [x |-> 30, y |-> 20] }
Scales == { 2 }
MinCrop == 10

\* What the service may answer.
GenMimes == { ImagePng }
ReplyTexts == { "Sorry" }
RejectMessages == { "" }

Min(a, b) == IF a < b THEN a ELSE b
Max(a, b) == IF a > b THEN a ELSE b
Abs(a) == IF a < 0 THEN -a ELSE a

-----------------------------------------------------------------------------
(* Text *)

IsSpace(c) == c = " "

RECURSIVE TrimStart(_)
TrimStart(t) ==
    IF t = <<>> THEN <<>>
    ELSE IF IsSpace(Head(t)) THEN TrimStart(Tail(t)) ELSE t

RECURSIVE TrimEnd(_)
TrimEnd(t) ==
    IF t = <<>> THEN <<>>
    ELSE IF IsSpace(t[Len(t)]) THEN TrimEnd(SubSeq(t, 1, Len(t) - 1)) ELSE t

\* String.prototype.trim
Trim(t) == TrimEnd(TrimStart(t))

-----------------------------------------------------------------------------
(* services/geminiService.ts *)

\* One part of candidates[0].content.parts.
ImagePart(m, d) == [hasInline |-> TRUE, mimeType |-> m, data |-> d, text |-> ""]
TextPart(t) == [hasInline |-> FALSE, mimeType |-> NoMime, data |-> 0, text |-> t]
EmptyPart == [hasInline |-> FALSE, mimeType |-> NoMime, data |-> 0, text |-> ""]

Parts ==
    { ImagePart(m, d) : m \in GenMimes, d \in 1..MaxPayload }
        \cup { TextPart(t) : t \in ReplyTexts } \cup { EmptyPart }

PartLists == UNION { [1..n -> Parts] : n \in 0..MaxParts }

\* How the call settles: getClient throws for a missing API key,
\* generateContent rejects (transport or service error), or it answers
\* with no candidates field, an empty candidates array, or the parts of
\* candidates[0].
Outcomes ==
    { [kind |-> "reject", message |-> m, parts |-> <<>>] : m \in RejectMessages }
        \cup { [kind |-> k, message |-> "", parts |-> <<>>] :
                    k \in { "noApiKey", "noCandidates", "emptyCandidates", "noParts" } }
        \cup { [kind |-> "parts", message |-> "", parts |-> ps] : ps \in PartLists }

TypeErrorMessage == "Cannot read properties of undefined"
ApiKeyMessage == "API Key is missing. Please ensure process.env.API_KEY is available."

\* base64Image.replace(/^data:image\/(png|jpeg|jpg|webp);base64,/, ''):
\* the prefix goes only for the four listed subtypes.
CleanBase64(base64Image) ==
    IF /\ Len(base64Image.mime) = 2
       /\ base64Image.mime[1] = "image"
       /\ base64Image.mime[2] \in { "png", "jpeg", "jpg", "webp" }
    THEN [mime |-> NoMime, data |-> base64Image.data]
    ELSE base64Image

\* The request that sends the size whatever the model.
BuildRequestAnyModel(base64Image, mimeType, prompt, config) ==
    LET model == IF config.model # "" THEN config.model ELSE FlashModel
    IN  [ model |-> model,
          data |-> CleanBase64(base64Image),
          mimeType |-> mimeType,
          text |-> prompt,
          imageSize |-> config.imageSize ]

\* The request handed to ai.models.generateContent.
BuildRequest(base64Image, mimeType, prompt, config) ==
    LET model == IF config.model # "" THEN config.model ELSE FlashModel
    IN  [ model |-> model,
          data |-> CleanBase64(base64Image),
          mimeType |-> mimeType,
          text |-> prompt,
          imageSize |-> IF config.imageSize # "" /\ model = ProModel
                        THEN config.imageSize ELSE "" ]

\* The loop over the parts: each inline part overwrites resultImageUrl, each
\* text part without inline data overwrites resultText.
RECURSIVE ScanParts(_, _)
ScanParts(ps, acc) ==
    IF ps = <<>> THEN acc
    ELSE LET part == Head(ps)
             next ==
                IF part.hasInline
                THEN [acc EXCEPT !.imageUrl =
                        [mime |-> part.mimeType,
                         data |-> <<GenOp(part.data)>>]]
                ELSE IF part.text # ""
                THEN [acc EXCEPT !.text = part.text]
                ELSE acc
         IN  ScanParts(Tail(ps), next)

\* What the promise of editImageWithGemini settles to: threw with a message,
\* or { imageUrl, text } (NoUrl and "" for undefined).
EditImageWithGemini(base64Image, mimeType, prompt, config, outcome) ==
    LET none == [threw |-> FALSE, message |-> "", imageUrl |-> NoUrl, text |-> ""]
    IN  CASE outcome.kind = "noApiKey" ->
                [none EXCEPT !.threw = TRUE, !.message = ApiKeyMessage]
          [] outcome.kind = "reject" ->
                [none EXCEPT !.threw = TRUE, !.message = outcome.message]
          [] outcome.kind = "emptyCandidates" ->
                [none EXCEPT !.threw = TRUE, !.message = TypeErrorMessage]
          [] outcome.kind \in { "noCandidates", "noParts" } -> none
          [] OTHER -> ScanParts(outcome.parts, none)

-----------------------------------------------------------------------------
(* App.tsx and UploadZone *)

\* The state an Editor is constructed with (the useState initialisers).
EditorMounts(initialImage) ==
    /\ history' = <<initialImage>>
    /\ historyIndex' = 0
    /\ currentImage' = initialImage
    /\ generatedImage' = NoGenerated
    /\ status' = READY
    /\ errorMessage' = NullMessage
    /\ activeTab' = "refine"
    /\ cropStart' = NoPoint
    /\ cropEnd' = NoPoint
    /\ isDraggingCrop' = FALSE

\* No Editor is rendered: its state cells do not exist.
EditorUnmounts ==
    /\ history' = <<>>
    /\ historyIndex' = 0
    /\ currentImage' = NoImage
    /\ generatedImage' = NoGenerated
    /\ status' = IDLE
    /\ errorMessage' = NullMessage
    /\ activeTab' = "refine"
    /\ cropStart' = NoPoint
    /\ cropEnd' = NoPoint
    /\ isDraggingCrop' = FALSE

\* fileToBase64 (utils/imageUtils): the file as a data URL of its type.
FileToBase64(file) == [mime |-> file.type, data |-> <<FileOp(file.id)>>]

\* URL.createObjectURL(file)
CreateObjectURL(file) == [mime |-> BlobScheme, data |-> <<FileOp(file.id)>>]

\* App.handleImageSelect: setActiveImage(image), which renders the Editor.
\* An Editor that is already rendered keeps its state: initialImage only
\* seeds useState.
HandleImageSelect(image) ==
    /\ activeImage' = image
    /\ IF Mounted THEN UNCHANGED editorVars ELSE EditorMounts(image)

\* The ImageFile handed to onImageSelected.
Uploaded(file) ==
    [ file |-> file.id,
      previewUrl |-> CreateObjectURL(file),
      base64 |-> FileToBase64(file),
      mimeType |-> file.type ]

\* file.type.startsWith('image/')
IsImageType(type) == type # NoMime /\ type[1] = "image"

\* UploadZone.processFile with the read done at once; readOk is whether
\* fileToBase64 resolves.  Nothing runs while an alert is on screen.
ProcessFile(file, readOk) ==
    /\ ~Mounted
    /\ alertMessage = NoAlert
    /\ UNCHANGED <<calls, reads>>
    /\ IF ~IsImageType(file.type)
       THEN /\ alertMessage' = UploadAlert
            /\ UNCHANGED <<activeImage, editorVars>>
       ELSE IF readOk
       THEN /\ HandleImageSelect(Uploaded(file))
            /\ UNCHANGED alertMessage
       ELSE /\ alertMessage' = FailedAlert
            /\ UNCHANGED <<activeImage, editorVars>>

\* processFile that reads whatever file it is given.
ProcessFileStartsAnyType(file) ==
    /\ ~Mounted
    /\ alertMessage = NoAlert
    /\ BagCardinality(reads) < MaxReads
    /\ UNCHANGED <<activeImage, editorVars, calls>>
    /\ reads' = reads (+) SetToBag({file})
    /\ UNCHANGED alertMessage

\* processFile up to its await: the type test, then fileToBase64 starts.
ProcessFileStarts(file) ==
    /\ ~Mounted
    /\ alertMessage = NoAlert
    /\ BagCardinality(reads) < MaxReads
    /\ UNCHANGED <<activeImage, editorVars, calls>>
    /\ IF ~IsImageType(file.type)
       THEN /\ alertMessage' = UploadAlert
            /\ UNCHANGED reads
       ELSE /\ reads' = reads (+) SetToBag({file})
            /\ UNCHANGED alertMessage

\* processFile after its await: fileToBase64 of file settled.  The
\* UploadZone may be gone by then; onImageSelected is App's handler.
FileReadSettles(file, readOk) ==
    /\ BagIn(file, reads)
    /\ alertMessage = NoAlert
    /\ reads' = reads (-) SetToBag({file})
    /\ UNCHANGED calls
    /\ IF readOk
       THEN /\ HandleImageSelect(Uploaded(file))
            /\ UNCHANGED alertMessage
       ELSE /\ alertMessage' = FailedAlert
            /\ UNCHANGED <<activeImage, editorVars>>

\* The user closes the alert box.
DismissAlert ==
    /\ alertMessage # NoAlert
    /\ alertMessage' = NoAlert
    /\ UNCHANGED <<activeImage, editorVars, calls, reads>>

\* The bag of the same promises, none of them with a mounted Editor.
Orphaned(bag) ==
    LET was(c) == { d \in BagToSet(bag) : [d EXCEPT !.live = FALSE] = c }
        Sum(S) == LET RECURSIVE Go(_)
                      Go(T) == IF T = {} THEN 0
                               ELSE LET d == CHOOSE d \in T : TRUE
                                    IN  bag[d] + Go(T \ {d})
                  IN  Go(S)
    IN  [ c \in { [d EXCEPT !.live = FALSE] : d \in BagToSet(bag) } |-> Sum(was(c)) ]

\* App.handleReset (New Image): the Editor unmounts; the promises it awaits
\* stay pending and their setState calls will reach no component.
HandleReset ==
    /\ Mounted
    /\ UNCHANGED <<reads, alertMessage>>
    /\ activeImage' = NoImage
    /\ EditorUnmounts
    /\ calls' = Orphaned(calls)

-----------------------------------------------------------------------------
(* Editor.tsx: history *)

\* addToHistory that pushes onto the whole history, without the slice.
AddToHistoryNoSlice(newImage) ==
    LET newHistory == Append(history, newImage)
    IN  /\ history' = newHistory
        /\ historyIndex' = historyIndex + 1
        /\ currentImage' = newImage

\* addToHistory that sets the cursor to the new length.
AddToHistoryOffByOne(newImage) ==
    LET newHistory == Append(SubSeq(history, 1, historyIndex + 1), newImage)
    IN  /\ history' = newHistory
        /\ historyIndex' = Len(newHistory)
        /\ currentImage' = newImage

\* addToHistory that puts the new image in place of the current entry.
AddToHistoryOverwrites(newImage) ==
    LET newHistory == Append(SubSeq(history, 1, historyIndex), newImage)
    IN  /\ history' = newHistory
        /\ historyIndex' = Len(newHistory) - 1
        /\ currentImage' = newImage

AddToHistory(newImage) ==
    LET newHistory == Append(SubSeq(history, 1, historyIndex + 1), newImage)
    IN  /\ history' = newHistory
        /\ historyIndex' = Len(newHistory) - 1
        /\ currentImage' = newImage

\* undo that clears the preview before looking at the cursor.
UndoClearsFirst ==
    IF historyIndex > 0
    THEN LET newIndex == historyIndex - 1
         IN  /\ historyIndex' = newIndex
             /\ currentImage' = history[newIndex + 1]
             /\ generatedImage' = NoGenerated
             /\ UNCHANGED <<history, status, errorMessage>>
    ELSE /\ generatedImage' = NoGenerated
         /\ UNCHANGED <<history, historyIndex, currentImage, status, errorMessage>>

\* undo that drops the entries after the new cursor.
UndoPops ==
    IF historyIndex > 0
    THEN LET newIndex == historyIndex - 1
         IN  /\ historyIndex' = newIndex
             /\ currentImage' = history[newIndex + 1]
             /\ generatedImage' = NoGenerated
             /\ history' = SubSeq(history, 1, newIndex + 1)
             /\ UNCHANGED <<status, errorMessage>>
    ELSE UNCHANGED sessionVars

\* undo that goes back to the first entry.
UndoToStart ==
    IF historyIndex > 0
    THEN LET newIndex == 0
         IN  /\ historyIndex' = newIndex
             /\ currentImage' = history[newIndex + 1]
             /\ generatedImage' = NoGenerated
             /\ UNCHANGED <<history, status, errorMessage>>
    ELSE UNCHANGED sessionVars

Undo ==
    IF historyIndex > 0
    THEN LET newIndex == historyIndex - 1
         IN  /\ historyIndex' = newIndex
             /\ currentImage' = history[newIndex + 1]
             /\ generatedImage' = NoGenerated
             /\ UNCHANGED <<history, status, errorMessage>>
    ELSE UNCHANGED sessionVars

\* redo that forgets setCurrentImage.
RedoKeepsImage ==
    IF historyIndex < Len(history) - 1
    THEN /\ historyIndex' = historyIndex + 1
         /\ generatedImage' = NoGenerated
         /\ UNCHANGED <<history, currentImage, status, errorMessage>>
    ELSE UNCHANGED sessionVars

Redo ==
    IF historyIndex < Len(history) - 1
    THEN LET newIndex == historyIndex + 1
         IN  /\ historyIndex' = newIndex
             /\ currentImage' = history[newIndex + 1]
             /\ generatedImage' = NoGenerated
             /\ UNCHANGED <<history, status, errorMessage>>
    ELSE UNCHANGED sessionVars

uiVars == <<activeTab, cropStart, cropEnd, isDraggingCrop>>

\* The toolbar buttons, disabled at the ends of the history.
UndoButton ==
    /\ Mounted
    /\ historyIndex # 0
    /\ Undo
    /\ UNCHANGED <<appVars, uiVars, calls>>

RedoButton ==
    /\ Mounted
    /\ historyIndex # Len(history) - 1
    /\ Redo
    /\ UNCHANGED <<appVars, uiVars, calls>>

\* handleKeyDown: Ctrl+Z, and Ctrl+Y or Ctrl+Shift+Z.
UndoKey ==
    /\ Mounted
    /\ Undo
    /\ UNCHANGED <<appVars, uiVars, calls>>

RedoKey ==
    /\ Mounted
    /\ Redo
    /\ UNCHANGED <<appVars, uiVars, calls>>

-----------------------------------------------------------------------------
(* Editor.tsx: remote edits *)

\* An awaited call of editImageWithGemini: its arguments, the request it
\* built for generateContent before suspending, and whether the Editor that
\* awaits it is mounted.
RemoteCall(img, prompt, config, live) ==
    [ kind |-> "remote", base64 |-> img.base64, mimeType |-> img.mimeType,
      prompt |-> prompt, config |-> config, live |-> live,
      request |-> BuildRequest(img.base64, img.mimeType, prompt, config) ]

KeyCheck(img, prompt, config) ==
    [ kind |-> "keycheck", base64 |-> img.base64, mimeType |-> img.mimeType,
      prompt |-> prompt, config |-> config, live |-> TRUE ]

\* handleGenerate that tests the prompt without trimming it.
HandleGenerateNoTrim(finalPrompt, isMaskRequest, config, img, pending, live) ==
    IF finalPrompt = <<>>
    THEN /\ calls' = pending
         /\ UNCHANGED <<status, errorMessage>>
    ELSE /\ calls' = pending (+) SetToBag({RemoteCall(img, finalPrompt, config, live)})
         /\ IF live
            THEN /\ status' = PROCESSING
                 /\ errorMessage' = NullMessage
            ELSE UNCHANGED <<status, errorMessage>>

\* handleGenerate that clears the message and leaves the status alone.
HandleGenerateKeepsStatus(finalPrompt, isMaskRequest, config, img, pending, live) ==
    IF Trim(finalPrompt) = <<>>
    THEN /\ calls' = pending
         /\ UNCHANGED <<status, errorMessage>>
    ELSE /\ calls' = pending (+) SetToBag({RemoteCall(img, finalPrompt, config, live)})
         /\ IF live
            THEN /\ status' = status
                 /\ errorMessage' = NullMessage
            ELSE UNCHANGED <<status, errorMessage>>

\* handleGenerate that sends a mask request without entering PROCESSING.
HandleGenerateMaskIsPreview(finalPrompt, isMaskRequest, config, img, pending, live) ==
    IF Trim(finalPrompt) = <<>>
    THEN /\ calls' = pending
         /\ UNCHANGED <<status, errorMessage>>
    ELSE /\ calls' = pending (+) SetToBag({RemoteCall(img, finalPrompt, config, live)})
         /\ IF live /\ ~isMaskRequest
            THEN /\ status' = PROCESSING
                 /\ errorMessage' = NullMessage
            ELSE UNCHANGED <<status, errorMessage>>

\* handleGenerate up to its await.  img is the currentImage of the render
\* the handler belongs to, pending the promises that stay awaited, live
\* whether the Editor that owns the setters is still mounted.
HandleGenerate(finalPrompt, isMaskRequest, config, img, pending, live) ==
    IF Trim(finalPrompt) = <<>>
    THEN /\ calls' = pending
         /\ UNCHANGED <<status, errorMessage>>
    ELSE /\ calls' = pending (+) SetToBag({RemoteCall(img, finalPrompt, config, live)})
         /\ IF live
            THEN /\ status' = PROCESSING
                 /\ errorMessage' = NullMessage
            ELSE UNCHANGED <<status, errorMessage>>

\* A click or key press that calls handleGenerate synchronously.
Generate(finalPrompt, isMaskRequest, config) ==
    /\ Mounted
    /\ BagCardinality(calls) < MaxCalls
    /\ HandleGenerate(finalPrompt, isMaskRequest, config, currentImage, calls, TRUE)
    /\ UNCHANGED <<appVars, history, historyIndex, currentImage,
                   generatedImage, uiVars>>

\* The custom prompt field: Enter (refine tab only) calls handleGenerate
\* whatever the text.
CustomPromptEnter(customPrompt) ==
    /\ activeTab = "refine"
    /\ Generate(customPrompt, FALSE, NoConfig)

\* The arrow button beside the field, disabled while the text trims to "".
CustomPromptButton(customPrompt) ==
    /\ activeTab \in { "refine", "lighting", "background" }
    /\ Trim(customPrompt) # <<>>
    /\ Generate(customPrompt, FALSE, NoConfig)

RefinePrompt(target, action) == <<"S">> \o target \o <<"&">> \o action \o <<".">>
MaskPrompt(target) == <<"M">> \o target \o <<".">>

HandleRefineSubmit(targetObject, editAction) ==
    /\ activeTab = "refine"
    /\ ~(targetObject = <<>> \/ editAction = <<>> \/ status = PROCESSING)
    /\ Generate(RefinePrompt(targetObject, editAction), FALSE, NoConfig)

HandleVisualizeSelection(targetObject) ==
    /\ activeTab = "refine"
    /\ ~(targetObject = <<>> \/ status = PROCESSING)
    /\ Generate(MaskPrompt(targetObject), TRUE, NoConfig)

HandlePresetClick(presetPrompt) ==
    /\ activeTab \in { "lighting", "background" }
    /\ status # PROCESSING
    /\ Generate(presetPrompt, FALSE, NoConfig)

\* handleUpscale: with window.aistudio the key check is awaited first and
\* handleGenerate runs afterwards, from the render of the click.
HandleUpscale(size, aistudio) ==
    /\ activeTab = "upscale"
    /\ status # PROCESSING
    /\ LET config == [model |-> ProModel, imageSize |-> size]
       IN  IF aistudio
           THEN /\ Mounted
                /\ BagCardinality(calls) < MaxCalls
                /\ calls' = calls (+) SetToBag({KeyCheck(currentImage, UpscalePrompt, config)})
                /\ UNCHANGED <<appVars, editorVars>>
           ELSE Generate(UpscalePrompt, FALSE, config)

\* The awaited key check c settles (either way, or throws).
KeyCheckSettles(c) ==
    /\ BagIn(c, calls)
    /\ c.kind = "keycheck"
    /\ HandleGenerate(c.prompt, FALSE, c.config, c, calls (-) SetToBag({c}), c.live)
    /\ UNCHANGED <<appVars, history, historyIndex, currentImage,
                   generatedImage, uiVars>>

DefaultError == "Failed to generate image."
NoImageError == "The model did not return an image."

\* handleGenerate that takes any answer that did not throw for a success.
HandleGenerateResumesUnchecked(c, outcome) ==
    /\ BagIn(c, calls)
    /\ c.kind = "remote"
    /\ calls' = calls (-) SetToBag({c})
    /\ UNCHANGED <<appVars, history, historyIndex, currentImage, uiVars>>
    /\ LET result == EditImageWithGemini(c.base64, c.mimeType, c.prompt, c.config, outcome)
       IN  IF ~c.live
           THEN UNCHANGED <<generatedImage, status, errorMessage>>
           ELSE IF ~result.threw
           THEN /\ generatedImage' = [imageUrl |-> result.imageUrl, prompt |-> c.prompt]
                /\ status' = COMPLETE
                /\ UNCHANGED errorMessage
           ELSE /\ errorMessage' =
                      IF result.message # "" THEN result.message ELSE DefaultError
                /\ status' = ERROR
                /\ UNCHANGED generatedImage

\* handleGenerate whose catch shows error.message as it is.
HandleGenerateResumesBareMessage(c, outcome) ==
    /\ BagIn(c, calls)
    /\ c.kind = "remote"
    /\ calls' = calls (-) SetToBag({c})
    /\ UNCHANGED <<appVars, history, historyIndex, currentImage, uiVars>>
    /\ LET result == EditImageWithGemini(c.base64, c.mimeType, c.prompt, c.config, outcome)
       IN  IF ~c.live
           THEN UNCHANGED <<generatedImage, status, errorMessage>>
           ELSE IF ~result.threw /\ result.imageUrl # NoUrl
           THEN /\ generatedImage' = [imageUrl |-> result.imageUrl, prompt |-> c.prompt]
                /\ status' = COMPLETE
                /\ UNCHANGED errorMessage
           ELSE /\ errorMessage' =
                      IF ~result.threw THEN NoImageError ELSE result.message
                /\ status' = ERROR
                /\ UNCHANGED generatedImage

\* handleGenerate that commits a result as soon as it arrives.
HandleGenerateResumesCommits(c, outcome) ==
    /\ BagIn(c, calls)
    /\ c.kind = "remote"
    /\ calls' = calls (-) SetToBag({c})
    /\ UNCHANGED <<appVars, uiVars>>
    /\ LET result == EditImageWithGemini(c.base64, c.mimeType, c.prompt, c.config, outcome)
       IN  IF ~c.live
           THEN UNCHANGED sessionVars
           ELSE IF ~result.threw /\ result.imageUrl # NoUrl
           THEN /\ generatedImage' = [imageUrl |-> result.imageUrl, prompt |-> c.prompt]
                /\ status' = COMPLETE
                /\ UNCHANGED errorMessage
                /\ IF historyIndex + 1 < MaxHistory
                   THEN AddToHistory([currentImage EXCEPT
                                        !.base64 = result.imageUrl,
                                        !.previewUrl = result.imageUrl])
                   ELSE UNCHANGED <<history, historyIndex, currentImage>>
           ELSE /\ errorMessage' =
                      IF ~result.threw THEN NoImageError
                      ELSE IF result.message # "" THEN result.message
                      ELSE DefaultError
                /\ status' = ERROR
                /\ UNCHANGED <<generatedImage, history, historyIndex, currentImage>>

\* handleGenerate whose setters reach whatever Editor is on screen.
HandleGenerateResumesAnyEditor(c, outcome) ==
    /\ BagIn(c, calls)
    /\ c.kind = "remote"
    /\ calls' = calls (-) SetToBag({c})
    /\ UNCHANGED <<appVars, history, historyIndex, currentImage, uiVars>>
    /\ LET result == EditImageWithGemini(c.base64, c.mimeType, c.prompt, c.config, outcome)
       IN  IF ~Mounted
           THEN UNCHANGED <<generatedImage, status, errorMessage>>
           ELSE IF ~result.threw /\ result.imageUrl # NoUrl
           THEN /\ generatedImage' = [imageUrl |-> result.imageUrl, prompt |-> c.prompt]
                /\ status' = COMPLETE
                /\ UNCHANGED errorMessage
           ELSE /\ errorMessage' =
                      IF ~result.threw THEN NoImageError
                      ELSE IF result.message # "" THEN result.message
                      ELSE DefaultError
                /\ status' = ERROR
                /\ UNCHANGED generatedImage

\* handleGenerate with a catch that only logs.
HandleGenerateResumesSwallows(c, outcome) ==
    /\ BagIn(c, calls)
    /\ c.kind = "remote"
    /\ calls' = calls (-) SetToBag({c})
    /\ UNCHANGED <<appVars, history, historyIndex, currentImage, uiVars>>
    /\ LET result == EditImageWithGemini(c.base64, c.mimeType, c.prompt, c.config, outcome)
       IN  IF ~c.live
           THEN UNCHANGED <<generatedImage, status, errorMessage>>
           ELSE IF ~result.threw /\ result.imageUrl # NoUrl
           THEN /\ generatedImage' = [imageUrl |-> result.imageUrl, prompt |-> c.prompt]
                /\ status' = COMPLETE
                /\ UNCHANGED errorMessage
           ELSE UNCHANGED <<generatedImage, status, errorMessage>>

\* handleGenerate after its await: the promise of call c settles.
HandleGenerateResumes(c, outcome) ==
    /\ BagIn(c, calls)
    /\ c.kind = "remote"
    /\ calls' = calls (-) SetToBag({c})
    /\ UNCHANGED <<appVars, history, historyIndex, currentImage, uiVars>>
    /\ LET result == EditImageWithGemini(c.base64, c.mimeType, c.prompt, c.config, outcome)
       IN  IF ~c.live
           THEN UNCHANGED <<generatedImage, status, errorMessage>>
           ELSE IF ~result.threw /\ result.imageUrl # NoUrl
           THEN /\ generatedImage' = [imageUrl |-> result.imageUrl, prompt |-> c.prompt]
                /\ status' = COMPLETE
                /\ UNCHANGED errorMessage
           ELSE /\ errorMessage' =
                      IF ~result.threw THEN NoImageError
                      ELSE IF result.message # "" THEN result.message
                      ELSE DefaultError
                /\ status' = ERROR
                /\ UNCHANGED generatedImage

\* Keep & Continue that leaves the status as it was.
HandleUseAsSourceKeepsStatus ==
    /\ Mounted
    /\ generatedImage # NoGenerated /\ activeTab # "crop"
    /\ historyIndex + 1 < MaxHistory
    /\ UNCHANGED <<appVars, activeTab, cropStart, cropEnd, isDraggingCrop,
                   errorMessage, calls, status>>
    /\ LET mimeType == IF generatedImage.imageUrl.mime # NoMime
                        THEN generatedImage.imageUrl.mime ELSE ImagePng
           newImage == [currentImage EXCEPT
                            !.base64 = generatedImage.imageUrl,
                            !.previewUrl = generatedImage.imageUrl,
                            !.mimeType = mimeType]
       IN  /\ AddToHistory(newImage)
           /\ generatedImage' = NoGenerated

\* Keep & Continue that leaves the kept result pending.
HandleUseAsSourceKeepsPending ==
    /\ Mounted
    /\ generatedImage # NoGenerated /\ activeTab # "crop"
    /\ historyIndex + 1 < MaxHistory
    /\ UNCHANGED <<appVars, activeTab, cropStart, cropEnd, isDraggingCrop,
                   errorMessage, calls, generatedImage>>
    /\ LET mimeType == IF generatedImage.imageUrl.mime # NoMime
                        THEN generatedImage.imageUrl.mime ELSE ImagePng
           newImage == [currentImage EXCEPT
                            !.base64 = generatedImage.imageUrl,
                            !.previewUrl = generatedImage.imageUrl,
                            !.mimeType = mimeType]
       IN  /\ AddToHistory(newImage)
           /\ status' = READY

\* Keep & Continue, rendered while a result is pending outside the crop tab.
HandleUseAsSource ==
    /\ Mounted
    /\ generatedImage # NoGenerated /\ activeTab # "crop"
    /\ historyIndex + 1 < MaxHistory
    /\ UNCHANGED <<appVars, activeTab, cropStart, cropEnd, isDraggingCrop,
                   errorMessage, calls>>
    /\ IF generatedImage # NoGenerated
       THEN LET mimeType == IF generatedImage.imageUrl.mime # NoMime
                            THEN generatedImage.imageUrl.mime ELSE ImagePng
                newImage == [currentImage EXCEPT
                                !.base64 = generatedImage.imageUrl,
                                !.previewUrl = generatedImage.imageUrl,
                                !.mimeType = mimeType]
            IN  /\ AddToHistory(newImage)
                /\ generatedImage' = NoGenerated
                /\ status' = READY
       ELSE UNCHANGED sessionVars

-----------------------------------------------------------------------------
(* Editor.tsx: tabs and the crop tool *)

SetActiveTab(tab) ==
    /\ Mounted
    /\ activeTab' = tab
    /\ UNCHANGED <<appVars, sessionVars,
                   cropStart, cropEnd, isDraggingCrop, calls>>

\* The image with the mouse handlers is rendered in the crop tab only;
\* offset is the pointer position relative to the image's rectangle.
HandleCropMouseDown(offset) ==
    /\ activeTab = "crop"
    /\ IF activeTab # "crop"
       THEN UNCHANGED <<cropStart, cropEnd, isDraggingCrop>>
       ELSE /\ cropStart' = offset
            /\ cropEnd' = offset
            /\ isDraggingCrop' = TRUE
    /\ UNCHANGED <<appVars, sessionVars, activeTab, calls>>

\* handleCropMouseMove that stores the pointer offset as it comes.
HandleCropMouseMoveNoClamp(offset) ==
    /\ activeTab = "crop"
    /\ IF ~isDraggingCrop \/ cropStart = NoPoint \/ activeTab # "crop"
       THEN UNCHANGED <<cropStart, cropEnd, isDraggingCrop>>
       ELSE /\ cropEnd' = offset
            /\ UNCHANGED <<cropStart, isDraggingCrop>>
    /\ UNCHANGED <<appVars, sessionVars, activeTab, calls>>

HandleCropMouseMove(offset) ==
    /\ activeTab = "crop"
    /\ IF ~isDraggingCrop \/ cropStart = NoPoint \/ activeTab # "crop"
       THEN UNCHANGED <<cropStart, cropEnd, isDraggingCrop>>
       ELSE /\ cropEnd' = [x |-> Max(0, Min(offset.x, DisplayWidth)),
                           y |-> Max(0, Min(offset.y, DisplayHeight))]
            /\ UNCHANGED <<cropStart, isDraggingCrop>>
    /\ UNCHANGED <<appVars, sessionVars, activeTab, calls>>

\* onMouseUp and onMouseLeave of the canvas area, rendered in every tab.
HandleCropMouseUp ==
    /\ Mounted
    /\ isDraggingCrop' = FALSE
    /\ UNCHANGED <<appVars, sessionVars, activeTab,
                   cropStart, cropEnd, calls>>

\* canvas.toDataURL(type): the type asked for when the canvas can encode
\* it, PNG otherwise.
ToDataURL(type, data) ==
    [ mime |-> IF type \in { ImagePng, <<"image", "jpeg">>, <<"image", "webp">> }
               THEN type ELSE ImagePng,
      data |-> data ]

\* The selection as a rectangle of the displayed image: its corners in
\* either order.
SelectionRect(start, end) ==
    [ x |-> Min(start.x, end.x), y |-> Min(start.y, end.y),
      w |-> Abs(end.x - start.x), h |-> Abs(end.y - start.y) ]

\* The test for tiny crops that asks for both sides to be short.
TooSmallBothSides(width, height) == width < MinCrop /\ height < MinCrop

\* if (width < 10 || height < 10) return
TooSmall(width, height) == width < MinCrop \/ height < MinCrop

\* The source rectangle scaled by the horizontal factor on both axes.
SourceRectUniformScale(sel, scaleX, scaleY) ==
    CropOp(sel.x * scaleX, sel.y * scaleX, sel.w * scaleX, sel.h * scaleX)

\* The source rectangle handed to drawImage, in natural pixels; the canvas
\* has its width and height.
SourceRect(sel, scaleX, scaleY) ==
    CropOp(sel.x * scaleX, sel.y * scaleY, sel.w * scaleX, sel.h * scaleY)

\* Apply Crop that leaves a pending result in place.
ApplyCropKeepsPending(scaleX, scaleY, ctx) ==
    /\ activeTab = "crop"
    /\ cropStart # NoPoint
    /\ historyIndex + 1 < MaxHistory
    /\ UNCHANGED <<appVars, activeTab,
                   isDraggingCrop, status, errorMessage, calls>>
    /\ IF cropStart = NoPoint \/ cropEnd = NoPoint
       THEN UNCHANGED <<history, historyIndex, currentImage, generatedImage,
                        cropStart, cropEnd>>
       ELSE LET sel == SelectionRect(cropStart, cropEnd)
            IN  IF TooSmall(sel.w, sel.h) \/ ~ctx
                THEN UNCHANGED <<history, historyIndex, currentImage,
                                 generatedImage, cropStart, cropEnd>>
                ELSE LET croppedBase64 ==
                            ToDataURL(currentImage.mimeType,
                                Append(currentImage.base64.data,
                                       SourceRect(sel, scaleX, scaleY)))
                         newImage == [currentImage EXCEPT
                                        !.base64 = croppedBase64,
                                        !.previewUrl = croppedBase64]
                     IN  /\ AddToHistory(newImage)
                         /\ cropStart' = NoPoint
                         /\ cropEnd' = NoPoint
                         /\ UNCHANGED generatedImage

\* Apply Crop that sends the crop to the service as an edit.
ApplyCropDispatches(scaleX, scaleY, ctx) ==
    /\ activeTab = "crop"
    /\ cropStart # NoPoint
    /\ historyIndex + 1 < MaxHistory
    /\ UNCHANGED <<appVars, activeTab, isDraggingCrop, errorMessage>>
    /\ IF cropStart = NoPoint \/ cropEnd = NoPoint
       THEN UNCHANGED <<history, historyIndex, currentImage, generatedImage,
                        cropStart, cropEnd, status, calls>>
       ELSE LET sel == SelectionRect(cropStart, cropEnd)
            IN  IF TooSmall(sel.w, sel.h) \/ ~ctx
                THEN UNCHANGED <<history, historyIndex, currentImage,
                                 generatedImage, cropStart, cropEnd,
                                 status, calls>>
                ELSE LET croppedBase64 ==
                            ToDataURL(currentImage.mimeType,
                                Append(currentImage.base64.data,
                                       SourceRect(sel, scaleX, scaleY)))
                         newImage == [currentImage EXCEPT
                                        !.base64 = croppedBase64,
                                        !.previewUrl = croppedBase64]
                     IN  /\ AddToHistory(newImage)
                         /\ cropStart' = NoPoint
                         /\ cropEnd' = NoPoint
                         /\ generatedImage' = NoGenerated
                         /\ status' = PROCESSING
                         /\ calls' = calls (+) SetToBag({
                                RemoteCall(newImage, <<"c">>, NoConfig, TRUE)})

\* Apply Crop, disabled without a selection.  scaleX and scaleY are
\* naturalWidth / rect.width and naturalHeight / rect.height of the image
\* as laid out at the click; ctx is whether getContext('2d') gave a context.
ApplyCrop(scaleX, scaleY, ctx) ==
    /\ activeTab = "crop"
    /\ cropStart # NoPoint
    /\ historyIndex + 1 < MaxHistory
    /\ UNCHANGED <<appVars, activeTab,
                   isDraggingCrop, status, errorMessage, calls>>
    /\ IF cropStart = NoPoint \/ cropEnd = NoPoint
       THEN UNCHANGED <<history, historyIndex, currentImage, generatedImage,
                        cropStart, cropEnd>>
       ELSE LET sel == SelectionRect(cropStart, cropEnd)
            IN  IF TooSmall(sel.w, sel.h) \/ ~ctx
                THEN UNCHANGED <<history, historyIndex, currentImage,
                                 generatedImage, cropStart, cropEnd>>
                ELSE LET croppedBase64 ==
                            ToDataURL(currentImage.mimeType,
                                Append(currentImage.base64.data,
                                       SourceRect(sel, scaleX, scaleY)))
                         newImage == [currentImage EXCEPT
                                        !.base64 = croppedBase64,
                                        !.previewUrl = croppedBase64]
                     IN  /\ AddToHistory(newImage)
                         /\ cropStart' = NoPoint
                         /\ cropEnd' = NoPoint
                         /\ generatedImage' = NoGenerated

\* resetCrop that forgets the end corner only.
ResetCropEndOnly ==
    /\ activeTab = "crop"
    /\ cropStart # NoPoint
    /\ cropStart' = cropStart
    /\ cropEnd' = NoPoint
    /\ UNCHANGED <<appVars, sessionVars, activeTab,
                   isDraggingCrop, calls>>

\* Clear Selection, disabled without a selection.
ResetCrop ==
    /\ activeTab = "crop"
    /\ cropStart # NoPoint
    /\ cropStart' = NoPoint
    /\ cropEnd' = NoPoint
    /\ UNCHANGED <<appVars, sessionVars, activeTab,
                   isDraggingCrop, calls>>

-----------------------------------------------------------------------------
(* The system *)

Init ==
    /\ activeImage = NoImage
    /\ history = <<>>
    /\ historyIndex = 0
    /\ currentImage = NoImage
    /\ generatedImage = NoGenerated
    /\ status = IDLE
    /\ errorMessage = NullMessage
    /\ activeTab = "refine"
    /\ cropStart = NoPoint
    /\ cropEnd = NoPoint
    /\ isDraggingCrop = FALSE
    /\ calls = EmptyBag
    /\ reads = EmptyBag
    /\ alertMessage = NoAlert

\* One edit session: the upload that mounts the Editor, then the handlers of
\* the refine and crop tabs, the toolbar and the keyboard.  The custom
\* prompt field stands for every way of asking for an edit: the other
\* buttons (refine, mask preview, presets, upscale) call the same
\* handleGenerate with their own text and are disabled while PROCESSING.
SessionTabs == { "refine", "crop" }

Next ==
    \/ \E file \in Files, readOk \in BOOLEAN : ProcessFile(file, readOk)
    \/ UndoButton
    \/ RedoButton
    \/ UndoKey
    \/ RedoKey
    \/ \E customPrompt \in Texts : CustomPromptEnter(customPrompt)
    \/ \E customPrompt \in Texts : CustomPromptButton(customPrompt)
    \/ \E c \in BagToSet(calls), outcome \in Outcomes : HandleGenerateResumes(c, outcome)
    \/ HandleUseAsSource
    \/ \E tab \in SessionTabs : SetActiveTab(tab)
    \/ \E offset \in Points : HandleCropMouseDown(offset)
    \/ \E offset \in PointerOffsets : HandleCropMouseMove(offset)
    \/ HandleCropMouseUp
    \/ \E scaleX \in Scales, scaleY \in Scales, ctx \in BOOLEAN : ApplyCrop(scaleX, scaleY, ctx)
    \/ ResetCrop
    \/ DismissAlert

Spec == Init /\ [][Next]_vars

\* The service answers: some awaited call settles.
Settles ==
    \E c \in BagToSet(calls), outcome \in Outcomes : HandleGenerateResumes(c, outcome)

\* The session under a service that eventually answers every call.
FairSpec == Spec /\ WF_vars(Settles)

-----------------------------------------------------------------------------
(* The crop tool on its own *)

\* Where the button goes down, and where the pointer is moved to (relative
\* to the image, so possibly outside it).
CropPoints == { [x |-> 10, y |-> 10], [x |-> 110, y |-> 60], [x |-> 0, y |-> 0] }
CropOffsets ==
    { [x |-> 110, y |-> 60], [x |-> 10, y |-> 10], [x |-> 15, y |-> 200],
      [x |-> 200, y |-> 15], [x |-> 500, y |-> -5] }

\* naturalWidth and naturalHeight of the image shown, whole multiples of
\* the displayed size.
NaturalSizes ==
    { [w |-> 2 * DisplayWidth, h |-> 2 * DisplayHeight],
      [w |-> 3 * DisplayWidth, h |-> DisplayHeight] }

\* img.naturalWidth / rect.width, exact for whole multiples.
ScaleOf(natural, shown) == natural \div shown

\* Apply Crop on an image of the given natural size.
ApplyCropClick(natural, ctx) ==
    ApplyCrop(ScaleOf(natural.w, DisplayWidth),
              ScaleOf(natural.h, DisplayHeight), ctx)

\* Sizes at which the image element may be laid out when Apply Crop reads
\* its rectangle: the size of the drag, or half of it (another image is
\* shown after undo or redo, or the window was resized).
ShownSizes ==
    { [w |-> DisplayWidth, h |-> DisplayHeight],
      [w |-> DisplayWidth \div 2, h |-> DisplayHeight \div 2] }

\* Apply Crop on an image of the given natural size laid out at the given
\* size.
ApplyCropShown(natural, shown, ctx) ==
    ApplyCrop(ScaleOf(natural.w, shown.w), ScaleOf(natural.h, shown.h), ctx)

\* An Editor in the crop tab on an uploaded PNG, with or without a result
\* of an edit pending.
CropInit ==
    LET image == Uploaded([id |-> 1, type |-> ImagePng])
    IN  /\ activeImage = image
        /\ history = <<image>>
        /\ historyIndex = 0
        /\ currentImage = image
        /\ \/ /\ generatedImage = NoGenerated
              /\ status = READY
           \/ /\ generatedImage =
                    [ imageUrl |-> [mime |-> ImagePng, data |-> <<GenOp(1)>>],
                      prompt |-> <<"p">> ]
              /\ status = COMPLETE
        /\ errorMessage = NullMessage
        /\ activeTab = "crop"
        /\ cropStart = NoPoint
        /\ cropEnd = NoPoint
        /\ isDraggingCrop = FALSE
        /\ calls = EmptyBag
        /\ reads = EmptyBag
        /\ alertMessage = NoAlert

CropNext ==
    \/ \E offset \in CropPoints : HandleCropMouseDown(offset)
    \/ \E offset \in CropOffsets : HandleCropMouseMove(offset)
    \/ HandleCropMouseUp
    \/ \E natural \in NaturalSizes, ctx \in BOOLEAN : ApplyCropClick(natural, ctx)
    \/ \E natural \in NaturalSizes, shown \in ShownSizes :
           ApplyCropShown(natural, shown, TRUE)
    \/ ResetCrop
    \/ UndoButton
    \/ RedoButton

CropSpec == CropInit /\ [][CropNext]_vars

-----------------------------------------------------------------------------
(* The service seen from the Editor: every model and size, two kinds of
   upload, answers with different images *)

ServiceFiles == { [id |-> 1, type |-> ImagePng], [id |-> 2, type |-> ImageGif] }

\* config of handleGenerate: with or without a model, with or without a size.
Configs ==
    { [model |-> m, imageSize |-> z] : m \in { "", ProModel }, z \in { "", "2K" } }

ServiceParts ==
    { ImagePart(ImagePng, d) : d \in 1..(MaxPayload + 1) }
        \cup { TextPart(t) : t \in ReplyTexts }

ServiceOutcomes ==
    { [kind |-> "reject", message |-> m, parts |-> <<>>] : m \in RejectMessages }
        \cup { [kind |-> "parts", message |-> "", parts |-> ps] :
                    ps \in UNION { [1..n -> ServiceParts] : n \in 1..MaxParts } }

ServiceTabs == { "refine", "upscale", "crop" }

\* handleGenerate called with a prompt and a config, one call at a time.
SubmitEdit(config) ==
    /\ calls = EmptyBag
    /\ Generate(<<"p">>, FALSE, config)

ServiceInit ==
    \E file \in ServiceFiles :
        LET image == Uploaded(file)
        IN  /\ activeImage = image
            /\ history = <<image>>
            /\ historyIndex = 0
            /\ currentImage = image
            /\ generatedImage = NoGenerated
            /\ status = READY
            /\ errorMessage = NullMessage
            /\ activeTab = "refine"
            /\ cropStart = NoPoint
            /\ cropEnd = NoPoint
            /\ isDraggingCrop = FALSE
            /\ calls = EmptyBag
            /\ reads = EmptyBag
            /\ alertMessage = NoAlert

ServiceNext ==
    \/ \E config \in Configs : SubmitEdit(config)
    \/ \E size \in ImageSizes, aistudio \in BOOLEAN :
            calls = EmptyBag /\ HandleUpscale(size, aistudio)
    \/ \E c \in BagToSet(calls) : KeyCheckSettles(c)
    \/ \E c \in BagToSet(calls), outcome \in ServiceOutcomes :
            HandleGenerateResumes(c, outcome)
    \/ HandleUseAsSource
    \/ \E tab \in ServiceTabs : SetActiveTab(tab)
    \/ \E offset \in Points : HandleCropMouseDown(offset)
    \/ \E offset \in PointerOffsets : HandleCropMouseMove(offset)
    \/ HandleCropMouseUp
    \/ \E scaleX \in Scales, scaleY \in Scales : ApplyCrop(scaleX, scaleY, TRUE)
    \/ UndoButton

ServiceSpec == ServiceInit /\ [][ServiceNext]_vars

-----------------------------------------------------------------------------
(* The App: sessions that start and end *)

\* Files dropped on the UploadZone: two images, a text file, a file whose
\* type the browser does not know.
AppFiles ==
    { [id |-> 1, type |-> ImagePng], [id |-> 2, type |-> ImageGif],
      [id |-> 3, type |-> TextPlain], [id |-> 4, type |-> NoMime] }

\* No alert box is open, so handlers and continuations can run.
Idle == alertMessage = NoAlert

AppNext ==
    \/ \E file \in AppFiles : ProcessFileStarts(file)
    \/ \E file \in BagToSet(reads), readOk \in BOOLEAN : FileReadSettles(file, readOk)
    \/ DismissAlert
    \/ Idle /\ HandleReset
    \/ \E customPrompt \in Texts : Idle /\ CustomPromptEnter(customPrompt)
    \/ \E c \in BagToSet(calls), outcome \in Outcomes :
            Idle /\ HandleGenerateResumes(c, outcome)
    \/ Idle /\ HandleUseAsSource
    \/ Idle /\ UndoButton

AppSpec == Init /\ [][AppNext]_vars

-----------------------------------------------------------------------------
(* Steps and responses the properties speak of *)

\* The service answered with at least one inline image part.
HasImage(outcome) ==
    /\ outcome.kind = "parts"
    /\ \E i \in 1..Len(outcome.parts) : outcome.parts[i].hasInline

\* The service answered with text and no image part.
TextOnly(outcome) ==
    /\ outcome.kind = "parts"
    /\ \A i \in 1..Len(outcome.parts) : ~outcome.parts[i].hasInline
    /\ \E i \in 1..Len(outcome.parts) : outcome.parts[i].text # ""

\* requestEdit with a prompt that is not blank.
RequestEditStep ==
    \E customPrompt \in Texts :
        /\ Trim(customPrompt) # <<>>
        /\ CustomPromptEnter(customPrompt) \/ CustomPromptButton(customPrompt)

\* An accepted crop: Apply Crop that reached addToHistory.
AcceptedCropStep ==
    /\ \E scaleX \in Scales, scaleY \in Scales : ApplyCrop(scaleX, scaleY, TRUE)
    /\ cropStart' = NoPoint

\* A commit: Keep & Continue, or an accepted crop.
CommitStep == HandleUseAsSource \/ AcceptedCropStep

\* undo / redo from the toolbar or the keyboard.
UndoStep == UndoButton \/ UndoKey
RedoStep == RedoButton \/ RedoKey

Outstanding == BagCardinality(calls)

-----------------------------------------------------------------------------
(* C1 *)

\* C1: at most one edit is outstanding: requestEdit with a non-empty prompt
\* while status is PROCESSING is a no-op, so no more than one remote call is
\* ever unresolved and history, cursor and pending result stay as they were.
C1_RequestWhileProcessingIsNoOp ==
    /\ [](Outstanding <= 1)
    /\ [][ (status = PROCESSING /\ RequestEditStep) =>
              UNCHANGED <<calls, history, historyIndex, generatedImage>> ]_vars

-----------------------------------------------------------------------------
(* C2 - C5 *)

\* C2: history linearity: right after every commit (Keep & Continue or an
\* accepted crop) the history is the old entries up to the old cursor plus
\* the new one, history.length == cursor + 1, and redo is unavailable.
C2_HistoryLinearity ==
    [][ CommitStep =>
          /\ Len(history') = historyIndex' + 1
          /\ Len(history') = historyIndex + 2
          /\ SubSeq(history', 1, historyIndex + 1) = SubSeq(history, 1, historyIndex + 1)
          /\ ~(historyIndex' < Len(history') - 1) ]_vars

\* A commit has pruned: the history has two entries with the cursor on the
\* last, while a call dispatched from a third entry is still awaited.
C2_Witness ==
    /\ Len(history) = 2
    /\ historyIndex = 1
    /\ \E c \in BagToSet(calls) : Len(c.base64.data) = 3

\* C3: undo at cursor 0 and redo at the last entry change nothing: history,
\* cursor, current image, pending result, status and the rest stay as is.
C3_UndoRedoBounded ==
    [][ ( \/ (UndoKey /\ historyIndex = 0)
          \/ (RedoKey /\ historyIndex = Len(history) - 1) ) =>
            UNCHANGED vars ]_vars

\* The cursor is at both ends of a one-entry history and a result is
\* pending, which an undo or redo that moved would have cleared.
C3_Witness ==
    /\ Mounted
    /\ historyIndex = 0
    /\ historyIndex = Len(history) - 1
    /\ status = COMPLETE
    /\ generatedImage # NoGenerated

\* C4: in every state of a session the history is not empty and the cursor
\* indexes one of its entries.
C4_CursorInRange ==
    Mounted =>
        /\ Len(history) >= 1
        /\ 0 <= historyIndex
        /\ historyIndex <= Len(history) - 1

\* A full history with the cursor moved back into the middle.
C4_Witness ==
    /\ Len(history) = MaxHistory
    /\ historyIndex = 1

\* C5: in every state of a session currentImage is history[cursor].
C5_CurrentIsHistoryAtCursor ==
    Mounted =>
        /\ historyIndex + 1 \in DOMAIN history
        /\ currentImage = history[historyIndex + 1]

\* The cursor has been moved back to an entry that differs from the last.
C5_Witness ==
    /\ Len(history) = 3
    /\ historyIndex = 1
    /\ currentImage = history[2]
    /\ currentImage # history[3]

-----------------------------------------------------------------------------
(* C6 - C10 *)

\* The stations of the end-to-end scenario.
FreshSession ==
    /\ Mounted
    /\ history = <<activeImage>> /\ historyIndex = 0 /\ currentImage = activeImage
    /\ status = READY /\ generatedImage = NoGenerated /\ calls = EmptyBag

Requested ==
    /\ history = <<activeImage>> /\ historyIndex = 0 /\ currentImage = activeImage
    /\ status = PROCESSING /\ generatedImage = NoGenerated /\ Outstanding = 1

Completed ==
    /\ history = <<activeImage>> /\ historyIndex = 0 /\ currentImage = activeImage
    /\ status = COMPLETE /\ generatedImage # NoGenerated /\ calls = EmptyBag

Committed ==
    /\ Len(history) = 2 /\ historyIndex = 1 /\ history[1] = activeImage
    /\ status = READY /\ generatedImage = NoGenerated /\ calls = EmptyBag

Undone ==
    /\ Len(history) = 2 /\ historyIndex = 0 /\ currentImage = activeImage
    /\ status = READY

\* C6: from a fresh session (one entry, READY), requestEdit with a non-empty
\* prompt and a Success resolution give COMPLETE; acknowledgeAndCommit then
\* gives history length 2 and cursor 1; undo then gives cursor 0, READY and
\* the original upload as current image.
C6_EndToEnd ==
    [][ /\ (FreshSession /\ RequestEditStep) => Requested'
        /\ (Requested /\ \E c \in BagToSet(calls), outcome \in Outcomes :
                            HasImage(outcome) /\ HandleGenerateResumes(c, outcome))
              => Completed'
        /\ (Completed /\ HandleUseAsSource) => Committed'
        /\ (Committed /\ UndoStep) => Undone' ]_vars

\* The end of the scenario: the generated image is the second entry, the
\* cursor is back on the upload and nothing is pending or awaited.
C6_Witness ==
    /\ Undone
    /\ history[2].base64.data = <<GenOp(1)>>
    /\ generatedImage = NoGenerated
    /\ calls = EmptyBag
    /\ errorMessage = NullMessage

\* C7: a response with a text part and no image part moves the controller
\* to ERROR, never to COMPLETE, and stores no pending image.
C7_TextOnlyIsFailure ==
    [][ (\E c \in BagToSet(calls), outcome \in Outcomes :
            TextOnly(outcome) /\ HandleGenerateResumes(c, outcome)) =>
          /\ status' = ERROR
          /\ errorMessage' # NullMessage
          /\ generatedImage' = generatedImage ]_vars

\* The request failed for want of an image and left nothing pending.
C7_Witness ==
    /\ status = ERROR
    /\ errorMessage = NoImageError
    /\ generatedImage = NoGenerated
    /\ calls = EmptyBag

\* C8: an undo or redo that moves the cursor from COMPLETE or ERROR leaves
\* status READY, no pending result and no failure reason.
C8_UndoRedoForceReady ==
    [][ ( /\ status \in { COMPLETE, ERROR }
          /\ \/ (UndoStep /\ historyIndex > 0)
             \/ (RedoStep /\ historyIndex < Len(history) - 1) ) =>
          /\ status' = READY
          /\ generatedImage' = NoGenerated
          /\ errorMessage' = NullMessage ]_vars

\* C9: while status is PROCESSING undo and redo change neither the cursor
\* nor the current image.
C9_NoUndoRedoWhileProcessing ==
    [][ (status = PROCESSING /\ (UndoStep \/ RedoStep)) =>
          UNCHANGED <<historyIndex, currentImage>> ]_vars

\* C10: Keep & Continue with a pending image appends it to the history as
\* the new current image, with the cursor on the new last entry, clears the
\* pending result and leaves status READY.
C10_KeepCommitsPending ==
    [][ HandleUseAsSource =>
          /\ Len(history') = historyIndex + 2
          /\ history'[Len(history')].base64 = generatedImage.imageUrl
          /\ historyIndex' = Len(history') - 1
          /\ currentImage' = history'[Len(history')]
          /\ generatedImage' = NoGenerated
          /\ status' = READY ]_vars

\* A generated image is the last entry and the current image, nothing is
\* pending and the status is READY.
C10_Witness ==
    /\ Len(history) >= 2
    /\ historyIndex = Len(history) - 1
    /\ currentImage.base64.data = <<GenOp(1)>>
    /\ currentImage = history[Len(history)]
    /\ generatedImage = NoGenerated
    /\ status = READY

-----------------------------------------------------------------------------
(* C11 - C13 *)

\* C11: a generated image is committed to the history only from status
\* COMPLETE: Keep & Continue never appends to the history while status is
\* PROCESSING, ERROR or READY.
C11_CommitOnlyFromComplete ==
    [][ (HandleUseAsSource /\ Len(history') = historyIndex + 2) =>
            status = COMPLETE ]_vars

\* C12: an accepted crop performed while a generated result is pending
\* clears that result, so Keep & Continue and Download are no longer offered
\* for it.
C12_CropClearsPending ==
    [][ (AcceptedCropStep /\ generatedImage # NoGenerated) =>
            generatedImage' = NoGenerated ]_vars

\* A crop of the upload is the current image while the status still tells
\* of a completed edit, whose result is gone.
C12_Witness ==
    /\ status = COMPLETE
    /\ generatedImage = NoGenerated
    /\ Len(history) = 2 /\ historyIndex = 1
    /\ Len(currentImage.base64.data) = 2
    /\ currentImage.base64.data[2].op = "crop"
    /\ cropStart = NoPoint
    /\ calls = EmptyBag

\* Apply Crop, whatever the layout and the canvas.
ApplyCropStep ==
    \E natural \in NaturalSizes, ctx \in BOOLEAN : ApplyCropClick(natural, ctx)

\* The selection spans less than 10 display pixels on some axis.
Degenerate ==
    /\ cropStart # NoPoint /\ cropEnd # NoPoint
    /\ \/ Abs(cropEnd.x - cropStart.x) < MinCrop
       \/ Abs(cropEnd.y - cropStart.y) < MinCrop

\* C13: Apply Crop on a selection that spans less than 10 display pixels on
\* either axis is rejected: nothing is committed, and history, cursor,
\* current image, pending result and status stay as they were.
C13_DegenerateCropRejected ==
    [][ (Degenerate /\ ApplyCropStep) =>
            UNCHANGED <<history, historyIndex, currentImage,
                        generatedImage, status>> ]_vars

\* A finished drag that is wide enough but only 5 pixels high, over an
\* upload with a result pending.
C13_Witness ==
    /\ activeTab = "crop"
    /\ ~isDraggingCrop
    /\ cropStart = [x |-> 10, y |-> 10]
    /\ cropEnd = [x |-> 200, y |-> 15]
    /\ Len(history) = 1
    /\ generatedImage # NoGenerated
    /\ status = COMPLETE

-----------------------------------------------------------------------------
(* C14 *)

\* The rectangle the last entry of a history was cut from its predecessor.
LastRect(h) == LET data == h[Len(h)].base64.data IN data[Len(data)]

\* C14: crop coordinate mapping.  For drag corners (x0,y0), (x1,y1) in
\* either order and whole scales sx = naturalW / displayW, sy = naturalH /
\* displayH, an accepted crop cuts the rectangle x = min(x0,x1)*sx,
\* y = min(y0,y1)*sy, width = |x1-x0|*sx, height = |y1-y0|*sy of the natural
\* image, sx on the X axis only and sy on the Y axis only; with display
\* 400x300, natural 800x600 and a drag from (10,10) to (110,60) that is
\* {x: 20, y: 20, width: 200, height: 100}.
C14_CropCoordinateMapping ==
    [][ \A natural \in NaturalSizes :
          (ApplyCropClick(natural, TRUE) /\ cropStart' = NoPoint) =>
            LET sx == natural.w \div DisplayWidth
                sy == natural.h \div DisplayHeight
                x0 == cropStart.x
                y0 == cropStart.y
                x1 == cropEnd.x
                y1 == cropEnd.y
                rect == LastRect(history')
            IN  /\ rect.op = "crop"
                /\ rect.x = (IF x0 < x1 THEN x0 ELSE x1) * sx
                /\ rect.y = (IF y0 < y1 THEN y0 ELSE y1) * sy
                /\ rect.w = (IF x1 >= x0 THEN x1 - x0 ELSE x0 - x1) * sx
                /\ rect.h = (IF y1 >= y0 THEN y1 - y0 ELSE y0 - y1) * sy
                /\ ( /\ sx = 2 /\ sy = 2
                     /\ {cropStart, cropEnd} =
                            { [x |-> 10, y |-> 10], [x |-> 110, y |-> 60] } )
                    => rect = [op |-> "crop", x |-> 20, y |-> 20,
                               w |-> 200, h |-> 100] ]_vars

\* The example rectangle was cut from the upload at twice the displayed
\* size, and then a rectangle at scales 3 and 1 from the result.
C14_Witness ==
    /\ Len(history) = 3
    /\ LastRect(SubSeq(history, 1, 2)) =
            [op |-> "crop", x |-> 20, y |-> 20, w |-> 200, h |-> 100]
    /\ LastRect(history) =
            [op |-> "crop", x |-> 30, y |-> 10, w |-> 300, h |-> 50]

-----------------------------------------------------------------------------
(* C15 - C17 *)

\* The call of the service failed: it threw, or answered without an image.
Failure(outcome) == ~HasImage(outcome)

\* C15: every failure of a dispatched edit (transport or service error,
\* missing API key, or an answer without a usable image) becomes state:
\* status ERROR with a reason that is not empty, and the history and the
\* cursor as they were.
C15_FailureBecomesState ==
    [][ (\E c \in BagToSet(calls), outcome \in Outcomes :
            Failure(outcome) /\ HandleGenerateResumes(c, outcome)) =>
          /\ status' = ERROR
          /\ errorMessage' \notin { NullMessage, "" }
          /\ UNCHANGED <<history, historyIndex>> ]_vars

\* A rejection without a message shows the default reason, after an
\* earlier commit whose history is intact.
C15_Witness ==
    /\ status = ERROR
    /\ errorMessage = DefaultError
    /\ Len(history) = 2
    /\ historyIndex = 1
    /\ calls = EmptyBag

\* The image is the unchanged result of an edit.
IsGenerated(image) ==
    \E k \in 1..MaxPayload : image.base64.data = <<GenOp(k)>>

Entries(h) == { h[i] : i \in DOMAIN h }

\* C16: a Success resolution gives status COMPLETE and stores the result as
\* the pending generated image only: the resolution leaves history, cursor
\* and current image as they were, and a result enters the history only by
\* a later Keep & Continue.
C16_SuccessIsPendingOnly ==
    [][ /\ (\E c \in BagToSet(calls), outcome \in Outcomes :
                HasImage(outcome) /\ HandleGenerateResumes(c, outcome)) =>
              /\ status' = COMPLETE
              /\ generatedImage' # NoGenerated
              /\ generatedImage'.imageUrl # NoUrl
              /\ UNCHANGED <<history, historyIndex, currentImage>>
        /\ (\E image \in Entries(history') \ Entries(history) : IsGenerated(image))
              => HandleUseAsSource ]_vars

\* A result is pending on the first of two entries, reached by an undo
\* before the edit; the history still has both.
C16_Witness ==
    /\ status = COMPLETE
    /\ generatedImage # NoGenerated
    /\ Len(history) = 2
    /\ historyIndex = 0
    /\ ~IsGenerated(history[2])
    /\ calls = EmptyBag

\* C17: a request whose instruction is empty after trimming is rejected
\* before dispatch: no remote call is made and status, failure reason,
\* pending result, history and cursor stay as they were.
C17_EmptyInstructionRejected ==
    [][ (\E customPrompt \in Texts :
            Trim(customPrompt) = <<>> /\ CustomPromptEnter(customPrompt)) =>
          UNCHANGED <<calls, status, errorMessage, generatedImage,
                      history, historyIndex>> ]_vars

\* The refine tab after a failed edit with an earlier result still shown:
\* a dispatch from here would clear the reason and set PROCESSING.
C17_Witness ==
    /\ Mounted
    /\ activeTab = "refine"
    /\ status = ERROR
    /\ errorMessage # NullMessage
    /\ generatedImage # NoGenerated
    /\ calls = EmptyBag

-----------------------------------------------------------------------------
(* C18 - C20 *)

\* C18: a commit keeps the prefix of the history: every entry at an index
\* up to the old cursor is as before, the new state is the last entry and
\* the cursor points at it; and it is one step, so in no state do history
\* and cursor disagree.
C18_CommitPreservesPrefix ==
    /\ [][ CommitStep =>
             /\ \A i \in 1..(historyIndex + 1) :
                    i \in DOMAIN history' /\ history'[i] = history[i]
             /\ DOMAIN history' = 1..(historyIndex + 2)
             /\ history'[historyIndex + 2] = currentImage'
             /\ historyIndex' = historyIndex + 1 ]_vars
    /\ [](Mounted => /\ historyIndex + 1 \in DOMAIN history
                     /\ currentImage = history[historyIndex + 1])

\* Two commits on top of the upload, the cursor on the last of three
\* different entries.
C18_Witness ==
    /\ Len(history) = 3
    /\ historyIndex = 2
    /\ history[1] = activeImage
    /\ history[2] # history[1]
    /\ history[3] # history[2]
    /\ currentImage = history[3]

\* C19: undo and redo never change the history itself: a successful undo
\* moves the cursor by -1 and a successful redo by +1, the entries and
\* their number staying the same; the history gets shorter only by the
\* pruning of a commit.
C19_UndoRedoKeepHistory ==
    [][ /\ UndoStep =>
              /\ history' = history
              /\ historyIndex > 0 => historyIndex' = historyIndex - 1
        /\ RedoStep =>
              /\ history' = history
              /\ historyIndex < Len(history) - 1 => historyIndex' = historyIndex + 1
        /\ Len(history') < Len(history) => CommitStep ]_vars

\* Two undos have moved the cursor from the last of three entries to the
\* first, and all three are still there.
C19_Witness ==
    /\ Len(history) = 3
    /\ historyIndex = 0
    /\ currentImage = history[1]
    /\ history[3] # history[1]

\* C20: crop is a direct commit path from READY to READY: an accepted crop
\* appends exactly one entry at cursor + 1 in the same step, dispatches no
\* remote call, does not pass through PROCESSING and leaves status READY.
C20_CropIsDirectCommit ==
    [][ (status = READY /\ AcceptedCropStep) =>
          /\ Len(history') = historyIndex + 2
          /\ SubSeq(history', 1, historyIndex + 1) = SubSeq(history, 1, historyIndex + 1)
          /\ LastRect(history').op = "crop"
          /\ historyIndex' = historyIndex + 1
          /\ calls' = calls
          /\ status' = READY ]_vars

\* A crop of the upload is the current image of a session that is READY
\* and has never asked for an edit.
C20_Witness ==
    /\ status = READY
    /\ Len(history) = 2 /\ historyIndex = 1
    /\ LastRect(history).op = "crop"
    /\ Len(currentImage.base64.data) = 2
    /\ currentImage.base64.data[1].op = "file"
    /\ generatedImage = NoGenerated
    /\ errorMessage = NullMessage
    /\ calls = EmptyBag

-----------------------------------------------------------------------------
(* C21 - C23 *)

\* C21: status follows the cycle READY -> PROCESSING -> (COMPLETE | ERROR)
\* -> READY: COMPLETE and ERROR are entered only from PROCESSING, and
\* PROCESSING is entered only by an accepted request for an edit.
C21_StatusCycle ==
    [][ /\ (status' \in { COMPLETE, ERROR } /\ status' # status)
                => status = PROCESSING
        /\ (status' = PROCESSING /\ status # PROCESSING)
                => RequestEditStep ]_vars

\* C22: starting a fresh edit from COMPLETE or ERROR discards the earlier
\* pending result and the error and leaves the history alone, so that no
\* image generated by an earlier edit is pending or can be kept while the
\* new edit is PROCESSING or after it has failed.
C22_FreshEditDiscardsPending ==
    [][ (status \in { COMPLETE, ERROR } /\ RequestEditStep) =>
          /\ generatedImage' = NoGenerated
          /\ errorMessage' = NullMessage
          /\ UNCHANGED <<history, historyIndex>> ]_vars

\* The texts of the parts of an answer.
TextsOf(outcome) ==
    { outcome.parts[i].text : i \in 1..Len(outcome.parts) } \ { "" }

\* C23: when the answer has a text part and no image, the failure reason
\* shown is that text; a default reason is used only when the answer
\* carries no text.
C23_TextIsTheReason ==
    [][ \A c \in BagToSet(calls), outcome \in Outcomes :
          (TextOnly(outcome) /\ HandleGenerateResumes(c, outcome)) =>
              errorMessage' \in TextsOf(outcome) ]_vars

-----------------------------------------------------------------------------
(* C24 - C27 *)

\* The data of the first part of an answer that carries an inline image.
FirstImage(parts) ==
    LET i == CHOOSE i \in 1..Len(parts) :
                /\ parts[i].hasInline
                /\ \A j \in 1..(i - 1) : ~parts[j].hasInline
    IN  parts[i].data

\* C24: when the answer has several parts, the first part with inline image
\* data is the one surfaced as the result, whatever image or text parts
\* follow it.
C24_FirstImageWins ==
    [][ \A c \in BagToSet(calls), outcome \in ServiceOutcomes :
          (HasImage(outcome) /\ HandleGenerateResumes(c, outcome)) =>
              generatedImage'.imageUrl.data = <<GenOp(FirstImage(outcome.parts))>> ]_vars

\* The calls of editImageWithGemini that are awaited.
RemoteCalls == { c \in BagToSet(calls) : c.kind = "remote" }

\* C25: the request carries an imageConfig size exactly when a size was
\* asked for and the model chosen is the high-resolution one; with the
\* default fast model a size asked for is dropped and the call is made all
\* the same.
C25_ResolutionGate ==
    /\ [](\A c \in RemoteCalls :
            /\ c.request.imageSize # "" <=>
                    (c.config.imageSize # "" /\ c.request.model = ProModel)
            /\ c.request.imageSize \in { "", c.config.imageSize }
            /\ c.request.model =
                    (IF c.config.model = "" THEN FlashModel ELSE c.config.model))
    /\ [][ SubmitEdit([model |-> "", imageSize |-> "2K"]) =>
              /\ status' = PROCESSING
              /\ \E c \in RemoteCalls' :
                    c.request.model = FlashModel /\ c.request.imageSize = "" ]_vars

\* A call for the fast model with a size asked for is awaited, its request
\* without the size, after an upscale whose request carried it was kept.
C25_Witness ==
    /\ \E c \in RemoteCalls :
            /\ c.config = [model |-> "", imageSize |-> "2K"]
            /\ c.request.model = FlashModel
            /\ c.request.imageSize = ""
    /\ status = PROCESSING
    /\ Len(history) = 2

\* C26: for every image a session can hold (an accepted upload of any
\* image/* type, a cropped image, a committed generated image), the request
\* carries the raw base64 data, with the data-URI prefix stripped, together
\* with the declared mime type.
C26_PrefixStripped ==
    \A c \in RemoteCalls :
        /\ c.request.data.mime = NoMime
        /\ c.request.data.data = c.base64.data
        /\ c.request.mimeType = c.mimeType

\* C27: an accepted crop makes a new image state and leaves its source
\* alone: the new state keeps the encoding (mimeType) of the source, the
\* entry that was current before the crop is unchanged in the history, and
\* it is the current image again after one undo.
C27_CropKeepsSourceAndEncoding ==
    [][ /\ AcceptedCropStep =>
              /\ currentImage'.mimeType = currentImage.mimeType
              /\ currentImage'.base64.mime = currentImage.mimeType
              /\ currentImage' # currentImage
              /\ history'[historyIndex + 1] = currentImage
              /\ history'[historyIndex + 2] = currentImage'
        /\ (UndoButton /\ LastRect(SubSeq(history, 1, historyIndex + 1)).op = "crop") =>
              /\ currentImage' = history[historyIndex]
              /\ history' = history ]_vars

-----------------------------------------------------------------------------
(* C28 - C30 *)

\* The Editor is put on screen by this step.
SessionStarts == ~Mounted /\ Mounted'

\* C28: a file whose declared type is not an image type is rejected with a
\* message to the user and starts no session (the active image stays
\* unset); only an accepted file starts a session.
C28_IngestionValidation ==
    [][ /\ \A file \in AppFiles :
              (ProcessFileStarts(file) /\ ~IsImageType(file.type)) =>
                  /\ alertMessage' = UploadAlert
                  /\ activeImage' = NoImage
                  /\ UNCHANGED <<editorVars, reads>>
        /\ SessionStarts =>
              \E file \in AppFiles :
                  /\ file.type # NoMime /\ file.type[1] = "image"
                  /\ activeImage' = Uploaded(file) ]_vars

\* The alert about the file type is on screen, no session has started and
\* nothing is being read.
C28_Witness ==
    /\ alertMessage = UploadAlert
    /\ ~Mounted
    /\ reads = EmptyBag
    /\ calls = EmptyBag

\* C30: New Image ends the session: the session that starts when another
\* file is selected has history = [new image], cursor 0, status READY and
\* nothing pending, whatever the old session's state was, and a call still
\* awaited by the old session never changes the new session's state.
C30_NewImageEndsSession ==
    [][ /\ SessionStarts =>
              /\ history' = <<activeImage'>>
              /\ historyIndex' = 0
              /\ currentImage' = activeImage'
              /\ status' = READY
              /\ generatedImage' = NoGenerated
              /\ errorMessage' = NullMessage
        /\ (\E c \in BagToSet(calls), outcome \in Outcomes :
                ~c.live /\ HandleGenerateResumes(c, outcome))
              => UNCHANGED <<activeImage, editorVars>>
        /\ HandleReset => \A c \in BagToSet(calls') : ~c.live ]_vars

\* A session on the second file is READY with its one entry, while a call
\* dispatched by an earlier session on the first file is still awaited.
C30_Witness ==
    /\ Mounted
    /\ activeImage = Uploaded([id |-> 2, type |-> ImageGif])
    /\ history = <<activeImage>>
    /\ status = READY
    /\ generatedImage = NoGenerated
    /\ \E c \in BagToSet(calls) :
            ~c.live /\ c.base64 = FileToBase64([id |-> 1, type |-> ImagePng])

\* C29: under a service that eventually answers every call, an edit that
\* entered PROCESSING eventually reaches COMPLETE or ERROR: the status does
\* not stay PROCESSING for ever; and the worst outcome is ERROR, from which
\* a new edit can be requested.
C29_ProcessingEnds ==
    /\ (status = PROCESSING) ~> (status \in { COMPLETE, ERROR })
    /\ [](status = PROCESSING => calls # EmptyBag)
    /\ [][ (status = ERROR /\ RequestEditStep) =>
              /\ status' = PROCESSING
              /\ errorMessage' = NullMessage
              /\ Outstanding' = Outstanding + 1 ]_vars

\* An edit ended in ERROR on an answer with an empty candidates array;
\* nothing is awaited and the refine tab, where a new edit can be asked
\* for, is open.
C29_Witness ==
    /\ status = ERROR
    /\ errorMessage = TypeErrorMessage
    /\ calls = EmptyBag
    /\ activeTab = "refine"
    /\ generatedImage = NoGenerated

-----------------------------------------------------------------------------
(* C31 - C34 *)

\* C31: a pending result was always produced from the image that is now
\* history[cursor]: a result arrives for the image that is current, and no
\* step changes the current image and leaves a result pending.
C31_PendingMatchesBase ==
    [][ /\ \A c \in BagToSet(calls), outcome \in Outcomes :
              (HasImage(outcome) /\ c.live /\ HandleGenerateResumes(c, outcome))
                  => c.base64 = history[historyIndex + 1].base64
        /\ (generatedImage # NoGenerated /\ currentImage' # currentImage)
              => generatedImage' = NoGenerated ]_vars

\* C32: whenever a remote edit call is outstanding, status is PROCESSING:
\* no Keep & Continue, crop, undo or redo moves the status out of
\* PROCESSING before the call resolves.
C32_OutstandingMeansProcessing ==
    Outstanding > 0 => status = PROCESSING

\* C33: whenever status is COMPLETE a generated image is pending: undo,
\* redo and crop never leave COMPLETE with nothing pending.
C33_CompleteHasPending ==
    status = COMPLETE => generatedImage # NoGenerated


\* C34: whenever status is ERROR a failure reason is stored (the message
\* is not null), also when several requests were started and settle in any
\* order.
C34_ErrorHasReason ==
    status = ERROR => errorMessage # NullMessage

\* Two requests were started, one has failed and the other is outstanding.
C34_Witness ==
    /\ status = ERROR
    /\ errorMessage # NullMessage
    /\ Outstanding = 1
    /\ generatedImage = NoGenerated


-----------------------------------------------------------------------------
(* C35 *)

\* The prompt entry points of the refine and preset tabs, on an uploaded
\* PNG: Generative Edit, Preview Mask, a preset, and what follows them.
PromptTabs == { "refine", "lighting" }

PromptInit ==
    LET image == Uploaded([id |-> 1, type |-> ImagePng])
    IN  /\ activeImage = image
        /\ history = <<image>>
        /\ historyIndex = 0
        /\ currentImage = image
        /\ generatedImage = NoGenerated
        /\ status = READY
        /\ errorMessage = NullMessage
        /\ activeTab = "refine"
        /\ cropStart = NoPoint
        /\ cropEnd = NoPoint
        /\ isDraggingCrop = FALSE
        /\ calls = EmptyBag
        /\ reads = EmptyBag
        /\ alertMessage = NoAlert

PromptNext ==
    \/ \E targetObject \in TargetObjects, editAction \in EditActions :
           HandleRefineSubmit(targetObject, editAction)
    \/ \E targetObject \in TargetObjects : HandleVisualizeSelection(targetObject)
    \/ \E presetPrompt \in PresetPrompts : HandlePresetClick(presetPrompt)
    \/ \E c \in BagToSet(calls), outcome \in Outcomes : HandleGenerateResumes(c, outcome)
    \/ HandleUseAsSource
    \/ \E tab \in PromptTabs : SetActiveTab(tab)
    \/ UndoButton
    \/ RedoButton

PromptSpec == PromptInit /\ [][PromptNext]_vars

IsMaskPrompt(prompt) == \E targetObject \in TargetObjects : prompt = MaskPrompt(targetObject)

\* C35: a preview-mask request is handled exactly like an ordinary edit
\* with the same prompt: the click is a step of the ordinary request (call
\* sent, status PROCESSING, message cleared, nothing else touched), a
\* Success makes its result the pending image with status COMPLETE, and
\* Keep & Continue commits that result like any other.
C35_MaskIsOrdinaryEdit ==
    [][ /\ \A targetObject \in TargetObjects :
              HandleVisualizeSelection(targetObject) =>
                  /\ Generate(MaskPrompt(targetObject), FALSE, NoConfig)
                  /\ status' = PROCESSING
                  /\ Outstanding' = Outstanding + 1
        /\ \A c \in BagToSet(calls), outcome \in Outcomes :
              (IsMaskPrompt(c.prompt) /\ HasImage(outcome)
                 /\ HandleGenerateResumes(c, outcome)) =>
                  /\ status' = COMPLETE
                  /\ generatedImage' # NoGenerated
                  /\ generatedImage'.prompt = c.prompt
                  /\ UNCHANGED <<history, historyIndex, currentImage>>
        /\ (IsMaskPrompt(generatedImage.prompt) /\ HandleUseAsSource) =>
                  /\ history' = SubSeq(history, 1, historyIndex + 1)
                                  \o <<currentImage'>>
                  /\ currentImage'.base64 = generatedImage.imageUrl
                  /\ historyIndex' = historyIndex + 1
                  /\ generatedImage' = NoGenerated
                  /\ status' = READY ]_vars

\* A generated result was kept as history[2] and a mask result is pending.
C35_Witness ==
    /\ Len(history) = 2
    /\ IsGenerated(history[2])
    /\ historyIndex = 1
    /\ status = COMPLETE
    /\ IsMaskPrompt(generatedImage.prompt)
    /\ calls = EmptyBag


-----------------------------------------------------------------------------
(* C36 - C39 *)

\* C36: a mouse move during a drag stores the pointer offset clamped to the
\* displayed image, 0 <= x <= displayWidth and 0 <= y <= displayHeight, and
\* leaves the start corner alone; a move with no drag in progress, or out
\* of the crop tab, leaves the selection unchanged.
C36_MoveClamps ==
    [][ \A offset \in CropOffsets :
          HandleCropMouseMove(offset) =>
            IF isDraggingCrop /\ cropStart # NoPoint /\ activeTab = "crop"
            THEN /\ 0 <= cropEnd'.x /\ cropEnd'.x <= DisplayWidth
                 /\ 0 <= cropEnd'.y /\ cropEnd'.y <= DisplayHeight
                 /\ (0 <= offset.x /\ offset.x <= DisplayWidth) => cropEnd'.x = offset.x
                 /\ (0 <= offset.y /\ offset.y <= DisplayHeight) => cropEnd'.y = offset.y
                 /\ cropStart' = cropStart
            ELSE UNCHANGED <<cropStart, cropEnd>> ]_vars

\* A drag released with the pointer beyond the right and top edges: the
\* end corner sits on the edges.
C36_Witness ==
    /\ cropStart = [x |-> 10, y |-> 10]
    /\ cropEnd = [x |-> DisplayWidth, y |-> 0]
    /\ ~isDraggingCrop
    /\ activeTab = "crop"


\* C37: every accepted crop rectangle lies inside the natural image:
\* 0 <= x, 0 <= y, x + width <= naturalWidth and y + height <= naturalHeight,
\* for every selection made by mouse down, move and up.
C37_CropInsideImage ==
    [][ \A natural \in NaturalSizes, shown \in ShownSizes :
          (ApplyCropShown(natural, shown, TRUE) /\ cropStart' = NoPoint) =>
            LET rect == LastRect(history')
            IN  /\ 0 <= rect.x
                /\ 0 <= rect.y
                /\ rect.x + rect.w <= natural.w
                /\ rect.y + rect.h <= natural.h ]_vars


\* Apply Crop under any layout.
AnyApplyCrop ==
    \/ ApplyCropStep
    \/ \E natural \in NaturalSizes, shown \in ShownSizes :
           ApplyCropShown(natural, shown, TRUE)

\* C38: the selection is discarded once applied or cleared: an accepted
\* crop and Clear Selection leave both corners unset, and with the corners
\* unset Apply Crop is not available, so a second Apply Crop without a new
\* drag does nothing.
C38_SelectionDiscarded ==
    /\ [][ ((AnyApplyCrop /\ history' # history) \/ ResetCrop) =>
              (cropStart' = NoPoint /\ cropEnd' = NoPoint) ]_vars
    /\ []((cropStart = NoPoint) = (cropEnd = NoPoint))
    /\ [](cropStart = NoPoint => ~ENABLED AnyApplyCrop)

\* Two crops were accepted, each after a drag of its own, and no selection
\* is left.
C38_Witness ==
    /\ Len(history) = 3 /\ historyIndex = 2
    /\ LastRect(SubSeq(history, 1, 2)).op = "crop"
    /\ LastRect(history).op = "crop"
    /\ cropStart = NoPoint /\ cropEnd = NoPoint
    /\ ~isDraggingCrop
    /\ status = READY


\* C39: a crop is applied only to the image its selection was drawn on:
\* whenever the current image changes (undo, redo, Keep & Continue, a crop)
\* no selection is left for Apply Crop to use.
C39_SelectionFollowsImage ==
    [][ currentImage' # currentImage =>
            (cropStart' = NoPoint /\ cropEnd' = NoPoint) ]_vars


-----------------------------------------------------------------------------
(* C40 *)

\* C40: undo and redo are inverse on the cursor.  A successful undo keeps
\* the history and moves to the entry just before, from where redo is
\* available and leads back to the cursor and the image it left; a
\* successful redo keeps the history and moves to the entry just after,
\* from where undo leads back likewise.  So undo then redo, and redo then
\* undo, restore cursor, current image and history.
C40_UndoRedoInverse ==
    [][ /\ (UndoStep /\ historyIndex > 0) =>
              /\ history' = history
              /\ historyIndex' + 1 = historyIndex
              /\ currentImage' = history'[historyIndex' + 1]
              /\ historyIndex' < Len(history') - 1
              /\ history'[(historyIndex' + 1) + 1] = currentImage
        /\ (RedoStep /\ historyIndex < Len(history) - 1) =>
              /\ history' = history
              /\ historyIndex' - 1 = historyIndex
              /\ currentImage' = history'[historyIndex' + 1]
              /\ historyIndex' > 0
              /\ history'[(historyIndex' - 1) + 1] = currentImage ]_vars

\* A result was pending on the second of two images, and undo followed by
\* redo has come back to that image: the status is still COMPLETE and the
\* pending result is gone.
C40_Witness ==
    /\ Len(history) = 2
    /\ historyIndex = 1
    /\ currentImage = history[2]
    /\ IsGenerated(history[2])
    /\ status = COMPLETE
    /\ generatedImage = NoGenerated
    /\ calls = EmptyBag
    /\ cropStart = NoPoint

====
